---- MODULE Spec2Model ----
(***************************************************************************)
(* A model of the JMeter live-monitoring server: the ingest endpoint       *)
(* (receive_metrics), the sample store (table jmeter_samples), the         *)
(* percentile helper, the aggregate query, the per-second time series      *)
(* (api_tps, api_threads, api_errorpct), the errors and success tables     *)
(* (api_errors, api_success) and the snapshot download.                    *)
(*                                                                         *)
(* Python floats are IEEE-754 binary64 values.  They are modelled exactly: *)
(* a non-negative float is m * 2^e with m an odd magnitude of at most 53   *)
(* bits, kept as a sequence of 15-bit limbs because the magnitudes         *)
(* do not fit 32-bit integers.  Every float operation rounds to nearest,   *)
(* ties to even, as the hardware does.                                     *)
(***************************************************************************)
EXTENDS Integers, Sequences, FiniteSets, TLC

VARIABLES store, now, resp, call, ret, job

vars == <<store, now, resp, call, ret, job>>

SetMax(S) == CHOOSE x \in S : \A y \in S : y <= x
SetMin(S) == CHOOSE x \in S : \A y \in S : x <= y

\* Optional values (Python None, a missing query parameter).
None == << >>
Some(v) == <<v>>

(***************************************************************************)
(* Magnitudes: naturals of any size, as little-endian sequences of limbs   *)
(* in base 2^15, the highest limb non-zero; << >> is 0.                     *)
(***************************************************************************)
LimbBits == 15

Base == 2^LimbBits

BNorm(b) ==
  LET S == {i \in 1..Len(b) : b[i] # 0}
  IN  IF S = {} THEN << >> ELSE SubSeq(b, 1, SetMax(S))

RECURSIVE BFromInt(_)
BFromInt(n) == IF n = 0 THEN << >> ELSE <<n % Base>> \o BFromInt(n \div Base)

RECURSIVE BToInt(_)
BToInt(b) == IF b = << >> THEN 0 ELSE b[1] + Base * BToInt(Tail(b))

BLimb(b, i) == IF i >= 1 /\ i <= Len(b) THEN b[i] ELSE 0

RECURSIVE BAddFrom(_, _, _, _)
BAddFrom(a, b, i, carry) ==
  IF i > Len(a) /\ i > Len(b) THEN BFromInt(carry)
  ELSE LET t == BLimb(a, i) + BLimb(b, i) + carry
       IN  <<t % Base>> \o BAddFrom(a, b, i + 1, t \div Base)

BAdd(a, b) == BNorm(BAddFrom(a, b, 1, 0))

\* a - b for a >= b
RECURSIVE BSubFrom(_, _, _, _)
BSubFrom(a, b, i, borrow) ==
  IF i > Len(a) THEN << >>
  ELSE LET t == BLimb(a, i) - BLimb(b, i) - borrow
       IN  <<IF t < 0 THEN t + Base ELSE t>>
             \o BSubFrom(a, b, i + 1, IF t < 0 THEN 1 ELSE 0)

BSub(a, b) == BNorm(BSubFrom(a, b, 1, 0))

\* b * k for a natural k < 2^15
RECURSIVE BMulFrom(_, _, _, _)
BMulFrom(b, i, k, carry) ==
  IF i > Len(b) THEN BFromInt(carry)
  ELSE LET t == b[i] * k + carry
       IN  <<t % Base>> \o BMulFrom(b, i + 1, k, t \div Base)

BMulSmall(b, k) == BNorm(BMulFrom(b, 1, k, 0))

\* quotient and remainder of b by a positive d < 2^15, from the top limb down
RECURSIVE BDivFrom(_, _, _, _)
BDivFrom(b, i, d, rem) ==
  IF i = 0 THEN [q |-> << >>, r |-> rem]
  ELSE LET cur  == Base * rem + b[i]
           rest == BDivFrom(b, i - 1, d, cur % d)
       IN  [q |-> rest.q \o <<cur \div d>>, r |-> rest.r]

BDivSmall(b, d) ==
  LET x == BDivFrom(b, Len(b), d, 0) IN [q |-> BNorm(x.q), r |-> x.r]

\* -1, 0, 1 as a < b, a = b, a > b
BCmp(a, b) ==
  IF Len(a) # Len(b) THEN (IF Len(a) < Len(b) THEN -1 ELSE 1)
  ELSE LET D == {i \in 1..Len(a) : a[i] # b[i]}
       IN  IF D = {} THEN 0
           ELSE IF a[SetMax(D)] > b[SetMax(D)] THEN 1 ELSE -1

\* the number of bits of a limb, and of a magnitude
LimbLen(v) ==
  IF v = 0 THEN 0 ELSE CHOOSE n \in 1..LimbBits : 2^(n - 1) <= v /\ v < 2^n

BBitLen(b) ==
  IF b = << >> THEN 0 ELSE LimbBits * (Len(b) - 1) + LimbLen(b[Len(b)])

\* bit j of b, the lowest being bit 1
BTestBit(b, j) ==
  (BLimb(b, ((j - 1) \div LimbBits) + 1) \div 2^((j - 1) % LimbBits)) % 2

\* b * 2^j and b \div 2^j
BShl(b, j) ==
  IF b = << >> THEN << >>
  ELSE [i \in 1..(j \div LimbBits) |-> 0] \o BMulSmall(b, 2^(j % LimbBits))

BShr(b, j) ==
  IF j \div LimbBits >= Len(b) THEN << >>
  ELSE BDivSmall(SubSeq(b, (j \div LimbBits) + 1, Len(b)), 2^(j % LimbBits)).q

\* the j lowest bits of b are all 0
BLowZero(b, j) ==
  /\ \A i \in 1..(j \div LimbBits) : BLimb(b, i) = 0
  /\ BLimb(b, (j \div LimbBits) + 1) % 2^(j % LimbBits) = 0

\* the number of 0 bits below the lowest 1 bit of b, b # 0
BTrailingZeros(b) ==
  LET i == SetMin({n \in 1..Len(b) : b[n] # 0})
  IN  LimbBits * (i - 1) + (CHOOSE n \in 0..LimbBits : b[i] % 2^(n + 1) = 2^n)

(***************************************************************************)
(* binary64 values and the operations the handlers perform on them.        *)
(***************************************************************************)
Precision == 53

FZero == [m |-> << >>, e |-> 0]

\* the canonical form of M * 2^E: an odd magnitude
FCanon(M, E) ==
  IF M = << >> THEN FZero
  ELSE LET tz == BTrailingZeros(M)
       IN  [m |-> BShr(M, tz), e |-> E + tz]

\* M * 2^E (plus a non-zero tail below it when sticky) rounded to nearest-even
FRound(M0, E, sticky) ==
  LET M == BNorm(M0)
      n == BBitLen(M)
  IN  IF n <= Precision THEN FCanon(M, E)
      ELSE LET drop == n - Precision
               q    == BShr(M, drop)
               st   == sticky \/ ~BLowZero(M, drop - 1)
               up   == BTestBit(M, drop) = 1 /\ (st \/ BTestBit(q, 1) = 1)
           IN  FCanon(IF up THEN BAdd(q, <<1>>) ELSE q, E + drop)

\* float(n) for a natural n below 2^31: exact
FFromInt(n) == FCanon(BFromInt(n), 0)

\* a / d of two naturals, 0 < d < 2^15, as true division produces it
FDivInt(a, d) ==
  IF a = 0 THEN FZero
  ELSE LET t == Precision + 2 + LimbLen(d)
           r == BDivSmall(BShl(BFromInt(a), t), d)
       IN  FRound(r.q, 0 - t, r.r # 0)

\* x * n for a float x and an integer-valued operand 0 <= n < 2^15
FMulInt(x, n) == FRound(BMulSmall(x.m, n), x.e, FALSE)

FAlignE(x, y) == IF x.e < y.e THEN x.e ELSE y.e

FAdd(x, y) ==
  IF x.m = << >> THEN y
  ELSE IF y.m = << >> THEN x
  ELSE LET e == FAlignE(x, y)
       IN  FRound(BAdd(BShl(x.m, x.e - e), BShl(y.m, y.e - e)), e, FALSE)

\* -1, 0, 1 as x < y, x = y, x > y
FCmp(x, y) ==
  IF x.m = << >> THEN (IF y.m = << >> THEN 0 ELSE -1)
  ELSE IF y.m = << >> THEN 1
  ELSE LET e == FAlignE(x, y)
       IN  BCmp(BShl(x.m, x.e - e), BShl(y.m, y.e - e))

\* x - y for x >= y
FSub(x, y) ==
  IF y.m = << >> THEN x
  ELSE LET e == FAlignE(x, y)
       IN  FRound(BSub(BShl(x.m, x.e - e), BShl(y.m, y.e - e)), e, FALSE)

\* math.floor and math.ceil of a non-negative float, as integers
FFloor(x) ==
  IF x.e >= 0 THEN BToInt(BShl(x.m, x.e)) ELSE BToInt(BShr(x.m, 0 - x.e))

FCeil(x) == IF x.e >= 0 THEN FFloor(x) ELSE FFloor(x) + 1

\* round(x, 2) of a non-negative float, as the integer number of hundredths:
\* the exact binary value rounded to two decimals, ties to even
FRound2(x) ==
  LET M == BMulSmall(x.m, 100)
  IN  IF x.e >= 0 THEN BToInt(BShl(M, x.e))
      ELSE LET drop == 0 - x.e
               q    == BToInt(BShr(M, drop))
               st   == ~BLowZero(M, drop - 1)
               up   == BTestBit(M, drop) = 1 /\ (st \/ q % 2 = 1)
           IN  IF up THEN q + 1 ELSE q

(***************************************************************************)
(* percentile(sorted_list, pct): the elements are integer-valued floats    *)
(* (response times in whole milliseconds), pct is an integer.  The result  *)
(* is None or Some(float).                                                 *)
(***************************************************************************)
percentile_rank(sorted_list, pct) ==
  LET k == FMulInt(FDivInt(pct, 100), Len(sorted_list) - 1)
      f == FFloor(k)
      c == FCeil(k)
  IN  IF f = c THEN FFromInt(sorted_list[FFloor(k) + 1])
      ELSE LET d0 == FMulInt(FSub(FFromInt(c), k), sorted_list[f + 1])
               d1 == FMulInt(FSub(k, FFromInt(f)), sorted_list[c + 1])
           IN  FAdd(d0, d1)

\* a faulty variant: an empty list yields the number 0
percentile_zero(sorted_list, pct) ==
  IF sorted_list = << >> THEN Some(FZero)
  ELSE Some(percentile_rank(sorted_list, pct))

percentile(sorted_list, pct) ==
  IF sorted_list = << >> THEN None
  ELSE Some(percentile_rank(sorted_list, pct))

(***************************************************************************)
(* JSON values of a request body, tagged with their type.  Numbers are     *)
(* whole, strings are not numerals.                                        *)
(***************************************************************************)
JStr(s) == [t |-> "str", v |-> s]
JInt(n) == [t |-> "int", v |-> n]
JBool(b) == [t |-> "bool", v |-> b]

\* dict.get(key, default)
Get(data, key, default) == IF key \in DOMAIN data THEN data[key] ELSE default

\* the truth value of a JSON value
Truthy(j) ==
  CASE j.t = "bool" -> j.v
    [] j.t = "int"  -> j.v # 0
    [] j.t = "str"  -> j.v # ""

Digits == <<"0", "1", "2", "3", "4", "5", "6", "7", "8", "9">>

RECURSIVE NatStr(_)
NatStr(n) ==
  IF n < 10 THEN Digits[n + 1] ELSE NatStr(n \div 10) \o Digits[(n % 10) + 1]

IntStr(n) == IF n < 0 THEN "-" \o NatStr(0 - n) ELSE NatStr(n)

\* str(x)
PyStr(j) ==
  CASE j.t = "str"  -> j.v
    [] j.t = "int"  -> IntStr(j.v)
    [] j.t = "bool" -> IF j.v THEN "True" ELSE "False"

\* float(x) and int(x) raise ValueError on a string that is no numeral
Numeric(j) == j.t # "str"

PyNum(j) == IF j.t = "bool" THEN (IF j.v THEN 1 ELSE 0) ELSE j.v

\* a value bound to a TEXT column is stored as text
SqlText(j) ==
  CASE j.t = "str"  -> j.v
    [] j.t = "int"  -> IntStr(j.v)
    [] j.t = "bool" -> IF j.v THEN "1" ELSE "0"

(***************************************************************************)
(* POST /metrics.  data is the JSON object of the request, a function from *)
(* its keys to their values.  The result is the status code and the row    *)
(* inserted into jmeter_samples, if any.                                   *)
(***************************************************************************)
\* a faulty variant: errorPct is looked at before success
receive_metrics_errorPctFirst(data, clock) ==
  IF DOMAIN data = {} THEN [code |-> 400, row |-> None]
  ELSE
    LET label == Get(data, "label", Get(data, "sampler", JStr("ALL")))
        rt == Get(data, "responseTime",
                  Get(data, "avgResponseTime", Get(data, "avg", JInt(0))))
        cmpFails == "errorPct" \in DOMAIN data /\ ~Numeric(data["errorPct"])
        success == IF "errorPct" \in DOMAIN data /\ Numeric(data["errorPct"])
                   THEN (IF PyNum(data["errorPct"]) > 0 THEN 0 ELSE 1)
                   ELSE IF "success" \in DOMAIN data
                   THEN (IF Truthy(data["success"]) THEN 1 ELSE 0)
                   ELSE 1
        status_code == PyStr(Get(data, "statusCode", Get(data, "rc", JStr("200"))))
        error_message == IF success = 0
                         THEN Get(data, "errorMessage", Get(data, "errorMsg", JStr("")))
                         ELSE JStr("")
        threads == Get(data, "activeThreads", Get(data, "threads", JInt(0)))
    IN  IF cmpFails \/ ~Numeric(threads) \/ ~Numeric(rt)
        THEN [code |-> 500, row |-> None]
        ELSE [code |-> 200,
              row  |-> Some([timestamp     |-> clock,
                             label         |-> SqlText(label),
                             response_time |-> PyNum(rt),
                             success       |-> success,
                             thread_count  |-> PyNum(threads),
                             status_code   |-> status_code,
                             error_message |-> SqlText(error_message)])]

\* a faulty variant: the row is written before its values are converted
receive_metrics_partial(data, clock) ==
  IF DOMAIN data = {} THEN [code |-> 400, row |-> None]
  ELSE
    LET label == Get(data, "label", Get(data, "sampler", JStr("ALL")))
        rt == Get(data, "responseTime",
                  Get(data, "avgResponseTime", Get(data, "avg", JInt(0))))
        cmpFails == "success" \notin DOMAIN data /\ "errorPct" \in DOMAIN data
                      /\ ~Numeric(data["errorPct"])
        success == IF "success" \in DOMAIN data
                   THEN (IF Truthy(data["success"]) THEN 1 ELSE 0)
                   ELSE IF "errorPct" \in DOMAIN data /\ Numeric(data["errorPct"])
                   THEN (IF PyNum(data["errorPct"]) > 0 THEN 0 ELSE 1)
                   ELSE 1
        status_code == PyStr(Get(data, "statusCode", Get(data, "rc", JStr("200"))))
        error_message == IF success = 0
                         THEN Get(data, "errorMessage", Get(data, "errorMsg", JStr("")))
                         ELSE JStr("")
        threads == Get(data, "activeThreads", Get(data, "threads", JInt(0)))
    IN  IF cmpFails \/ ~Numeric(threads) \/ ~Numeric(rt)
        THEN [code |-> 500,
              row  |-> Some([timestamp     |-> clock,
                             label         |-> SqlText(label),
                             response_time |-> 0,
                             success       |-> success,
                             thread_count  |-> 0,
                             status_code   |-> status_code,
                             error_message |-> SqlText(error_message)])]
        ELSE [code |-> 200,
              row  |-> Some([timestamp     |-> clock,
                             label         |-> SqlText(label),
                             response_time |-> PyNum(rt),
                             success       |-> success,
                             thread_count  |-> PyNum(threads),
                             status_code   |-> status_code,
                             error_message |-> SqlText(error_message)])]

receive_metrics(data, clock) ==
  IF DOMAIN data = {} THEN [code |-> 400, row |-> None]
  ELSE
    LET label == Get(data, "label", Get(data, "sampler", JStr("ALL")))
        rt == Get(data, "responseTime",
                  Get(data, "avgResponseTime", Get(data, "avg", JInt(0))))
        cmpFails == "success" \notin DOMAIN data /\ "errorPct" \in DOMAIN data
                      /\ ~Numeric(data["errorPct"])
        success == IF "success" \in DOMAIN data
                   THEN (IF Truthy(data["success"]) THEN 1 ELSE 0)
                   ELSE IF "errorPct" \in DOMAIN data /\ Numeric(data["errorPct"])
                   THEN (IF PyNum(data["errorPct"]) > 0 THEN 0 ELSE 1)
                   ELSE 1
        status_code == PyStr(Get(data, "statusCode", Get(data, "rc", JStr("200"))))
        error_message == IF success = 0
                         THEN Get(data, "errorMessage", Get(data, "errorMsg", JStr("")))
                         ELSE JStr("")
        threads == Get(data, "activeThreads", Get(data, "threads", JInt(0)))
    IN  IF cmpFails \/ ~Numeric(threads) \/ ~Numeric(rt)
        THEN [code |-> 500, row |-> None]
        ELSE [code |-> 200,
              row  |-> Some([timestamp     |-> clock,
                             label         |-> SqlText(label),
                             response_time |-> PyNum(rt),
                             success       |-> success,
                             thread_count  |-> PyNum(threads),
                             status_code   |-> status_code,
                             error_message |-> SqlText(error_message)])]

(***************************************************************************)
(* Queries on jmeter_samples.  db is the table: the sequence of its rows   *)
(* in rowid order.                                                         *)
(***************************************************************************)
\* a faulty variant: the lower bound of the window is exclusive
InWindow_open(db, start, end, errorsOnly, label) ==
  {i \in DOMAIN db : /\ start < db[i].timestamp
                     /\ db[i].timestamp <= end
                     /\ (errorsOnly => db[i].success = 0)
                     /\ (label # None => db[i].label = label[1])}

\* WHERE timestamp BETWEEN start AND end [AND success=0] [AND label = label]
InWindow(db, start, end, errorsOnly, label) ==
  {i \in DOMAIN db : /\ start <= db[i].timestamp
                     /\ db[i].timestamp <= end
                     /\ (errorsOnly => db[i].success = 0)
                     /\ (label # None => db[i].label = label[1])}

\* SELECT timestamp, COUNT(*) ... GROUP BY timestamp, as {timestamp: count}
CountByTimestamp(db, start, end, errorsOnly, label) ==
  LET I == InWindow(db, start, end, errorsOnly, label)
  IN  [t \in {db[i].timestamp : i \in I} |->
         Cardinality({i \in I : db[i].timestamp = t})]

RECURSIVE SumThreads(_, _)
SumThreads(db, I) ==
  IF I = {} THEN 0
  ELSE LET i == SetMin(I) IN db[i].thread_count + SumThreads(db, I \ {i})

\* a faulty variant: the mean is taken by integer division
AvgThreadsByTimestamp_floor(db, start, end) ==
  LET I == {i \in DOMAIN db : start <= db[i].timestamp /\ db[i].timestamp <= end}
  IN  [t \in {db[i].timestamp : i \in I} |->
         LET G == {i \in I : db[i].timestamp = t}
         IN  100 * (SumThreads(db, G) \div Cardinality(G))]

\* SELECT timestamp, AVG(thread_count) ... GROUP BY timestamp, rounded by
\* round(r[1], 2): {timestamp: hundredths}
AvgThreadsByTimestamp(db, start, end) ==
  LET I == InWindow(db, start, end, FALSE, None)
  IN  [t \in {db[i].timestamp : i \in I} |->
         LET G == {i \in I : db[i].timestamp = t}
         IN  FRound2(FDivInt(SumThreads(db, G), Cardinality(G)))]

\* dict.get(key, default) on a mapping
MapGet(map, key, default) == IF key \in DOMAIN map THEN map[key] ELSE default

\* x or y, for an optional integer x
Or(x, y) == IF x = None \/ x[1] = 0 THEN y ELSE x[1]

\* len(range(start, end + 1))
RangeLen(start, end) == IF end >= start THEN end - start + 1 ELSE 0

\* a faulty variant: range(start, end), the last second left out
FillSeries_exclusive(start, end, ts_map) ==
  LET n == RangeLen(start, end - 1)
  IN  [timestamps |-> [i \in 1..n |-> start + i - 1],
       values     |-> [i \in 1..n |-> MapGet(ts_map, start + i - 1, 0)]]

\* a faulty variant: only the seconds the query returned, no gap filling
FillSeries_sparse(start, end, ts_map) ==
  LET secs == SelectSeq([i \in 1..RangeLen(start, end) |-> start + i - 1],
                        LAMBDA sec : sec \in DOMAIN ts_map)
  IN  [timestamps |-> secs, values |-> [i \in DOMAIN secs |-> ts_map[secs[i]]]]

\* a faulty variant: the body runs once before the bound is tested
FillSeries_once(start, end, ts_map) ==
  LET n == IF end > start THEN end - start + 1 ELSE 1
  IN  [timestamps |-> [i \in 1..n |-> start + i - 1],
       values     |-> [i \in 1..n |-> MapGet(ts_map, start + i - 1, 0)]]

\* for sec in range(start, end+1): labels.append(sec);
\*                                 values.append(ts_map.get(sec, 0))
\* the two lists the loop builds, element i for sec = start + i - 1
FillSeries(start, end, ts_map) ==
  LET n == RangeLen(start, end)
  IN  [timestamps |-> [i \in 1..n |-> start + i - 1],
       values     |-> [i \in 1..n |-> MapGet(ts_map, start + i - 1, 0)]]

DefaultWindow == 60

\* GET /api/tps
api_tps(args, db, clock) ==
  LET window == IF args.window = None THEN DefaultWindow ELSE args.window[1]
      end    == Or(args.end, clock)
      start  == end - window + 1
      ts_map == CountByTimestamp(db, start, end, FALSE, None)
      series == FillSeries(start, end, ts_map)
  IN  [kind |-> "tps", req |-> args, start |-> start, end |-> end,
       timestamps |-> series.timestamps, values |-> series.values]

\* GET /api/threads; the values are in hundredths
api_threads(args, db, clock) ==
  LET window == IF args.window = None THEN DefaultWindow ELSE args.window[1]
      end    == Or(args.end, clock)
      start  == end - window + 1
      ts_map == AvgThreadsByTimestamp(db, start, end)
      series == FillSeries(start, end, ts_map)
  IN  [kind |-> "threads", req |-> args, start |-> start, end |-> end,
       timestamps |-> series.timestamps, values |-> series.values]

\* a faulty variant: the ratio is not scaled to a percentage
ErrorPct_ratio(err, tot) ==
  IF tot # 0 THEN FRound2(FDivInt(err, tot)) ELSE 0

\* pct = round((err / tot * 100.0) if tot else 0.0, 2), in hundredths
ErrorPct(err, tot) ==
  IF tot # 0 THEN FRound2(FMulInt(FDivInt(err, tot), 100)) ELSE 0

\* for sec in range(start, end + 1): timestamps.append(sec);
\*                                   error_pct.append(pct)
FillErrorPct(start, end, total_map, err_map) ==
  LET n == RangeLen(start, end)
  IN  [timestamps |-> [i \in 1..n |-> start + i - 1],
       values     |-> [i \in 1..n |->
                         ErrorPct(MapGet(err_map, start + i - 1, 0),
                                  MapGet(total_map, start + i - 1, 0))]]

\* GET /api/errorpct; dbTotal and dbErr are the table as the two queries
\* of the handler read it; the values are in hundredths
api_errorpct(args, dbTotal, dbErr, clock) ==
  LET windowed == args.window # None /\ args.window[1] # 0
      end    == Or(args.end, clock)
      start  == IF windowed THEN end - args.window[1] + 1
                ELSE Or(args.start, end - DefaultWindow + 1)
      label  == IF args.label # None /\ args.label[1] # "" THEN args.label ELSE None
      total_map == CountByTimestamp(dbTotal, start, end, FALSE, label)
      err_map   == CountByTimestamp(dbErr, start, end, TRUE, label)
      series == FillErrorPct(start, end, total_map, err_map)
  IN  [kind |-> "errorpct", req |-> args, start |-> start, end |-> end,
       timestamps |-> series.timestamps, values |-> series.values]

(***************************************************************************)
(* GET /api/aggregate, the percentile-bearing handler (notreqired.py).     *)
(* avg, pct90, pct95, pct99 and error_pct of a row are in hundredths.      *)
(***************************************************************************)
\* a faulty variant: the label parameter adds no condition
SelectSamples_anyLabel(db, label, start, end) ==
  SelectSeq(db, LAMBDA r :
    /\ (start # None /\ start[1] # 0 => r.timestamp >= start[1])
    /\ (end # None /\ end[1] # 0 => r.timestamp <= end[1]))

\* SELECT label, response_time, success FROM jmeter_samples [WHERE ...]:
\* the rows in rowid order; a condition is added for a parameter that is truthy
SelectSamples(db, label, start, end) ==
  SelectSeq(db, LAMBDA r :
    /\ (label # None /\ label[1] # "" => r.label = label[1])
    /\ (start # None /\ start[1] # 0 => r.timestamp >= start[1])
    /\ (end # None /\ end[1] # 0 => r.timestamp <= end[1]))

\* the keys of the dict agg, in insertion order
RECURSIVE AggKeys(_, _)
AggKeys(rows, keys) ==
  IF rows = << >> THEN keys
  ELSE AggKeys(Tail(rows),
               IF \E i \in DOMAIN keys : keys[i] = Head(rows).label
               THEN keys ELSE Append(keys, Head(rows).label))

\* a faulty variant: the samples are left in the order of the rows
Sorted_asRead(samples) == samples

\* sorted(samples)
RECURSIVE Sorted(_)
Sorted(samples) ==
  IF samples = << >> THEN << >>
  ELSE LET rest == Sorted(Tail(samples))
           x    == Head(samples)
           n    == Cardinality({i \in DOMAIN rest : rest[i] < x})
       IN  SubSeq(rest, 1, n) \o <<x>> \o SubSeq(rest, n + 1, Len(rest))

RECURSIVE Sum(_)
Sum(s) == IF s = << >> THEN 0 ELSE Head(s) + Sum(Tail(s))

\* a faulty variant: error_pct is taken from the samples that succeeded
AggregateRow_successes(lab, rows) ==
  LET mine   == SelectSeq(rows, LAMBDA r : r.label = lab)
      s      == Sorted([i \in DOMAIN mine |-> mine[i].response_time])
      count  == Len(s)
      errors == Cardinality({i \in DOMAIN mine : mine[i].success = 1})
  IN  [label     |-> lab,
       count     |-> count,
       avg       |-> IF count # 0 THEN FRound2(FDivInt(Sum(s), count)) ELSE 0,
       min       |-> IF s # << >> THEN s[1] ELSE 0,
       max       |-> IF s # << >> THEN s[Len(s)] ELSE 0,
       pct90     |-> IF s # << >> THEN FRound2(percentile(s, 90)[1]) ELSE 0,
       pct95     |-> IF s # << >> THEN FRound2(percentile(s, 95)[1]) ELSE 0,
       pct99     |-> IF s # << >> THEN FRound2(percentile(s, 99)[1]) ELSE 0,
       error_pct |-> IF count # 0
                     THEN FRound2(FMulInt(FDivInt(errors, count), 100)) ELSE 0]

\* the row computed from agg[lab]
AggregateRow(lab, rows) ==
  LET mine   == SelectSeq(rows, LAMBDA r : r.label = lab)
      s      == Sorted([i \in DOMAIN mine |-> mine[i].response_time])
      count  == Len(s)
      errors == Cardinality({i \in DOMAIN mine : mine[i].success = 0})
  IN  [label     |-> lab,
       count     |-> count,
       avg       |-> IF count # 0 THEN FRound2(FDivInt(Sum(s), count)) ELSE 0,
       min       |-> IF s # << >> THEN s[1] ELSE 0,
       max       |-> IF s # << >> THEN s[Len(s)] ELSE 0,
       pct90     |-> IF s # << >> THEN FRound2(percentile(s, 90)[1]) ELSE 0,
       pct95     |-> IF s # << >> THEN FRound2(percentile(s, 95)[1]) ELSE 0,
       pct99     |-> IF s # << >> THEN FRound2(percentile(s, 99)[1]) ELSE 0,
       error_pct |-> IF count # 0
                     THEN FRound2(FMulInt(FDivInt(errors, count), 100)) ELSE 0]

(***************************************************************************)
(* The statistics of a row over response times that are not whole: the     *)
(* column response_time is REAL and receive_metrics stores float(rt), so a *)
(* sample can be 0.125 or 100.004 ms.  A sample is a binary64 value here.  *)
(***************************************************************************)
\* a * b
RECURSIVE BMulLimbs(_, _, _)
BMulLimbs(a, b, i) ==
  IF i > Len(b) THEN << >>
  ELSE BAdd(BShl(BMulSmall(a, b[i]), LimbBits * (i - 1)), BMulLimbs(a, b, i + 1))

\* x * y of two floats
FMul(x, y) ==
  IF x.m = << >> \/ y.m = << >> THEN FZero
  ELSE FRound(BMulLimbs(x.m, y.m, 1), x.e + y.e, FALSE)

\* x / d for a float x and a whole d, 0 < d < 2^15
FDivSmall(x, d) ==
  IF x.m = << >> THEN FZero
  ELSE LET t == Precision + 2 + LimbLen(d)
           r == BDivSmall(BShl(x.m, t), d)
       IN  FRound(r.q, x.e - t, r.r # 0)

\* percentile(sorted_list, pct) on a non-empty list of floats
percentile_real(sorted_list, pct) ==
  LET k == FMulInt(FDivInt(pct, 100), Len(sorted_list) - 1)
      f == FFloor(k)
      c == FCeil(k)
  IN  IF f = c THEN sorted_list[FFloor(k) + 1]
      ELSE LET d0 == FMul(sorted_list[f + 1], FSub(FFromInt(c), k))
               d1 == FMul(sorted_list[c + 1], FSub(k, FFromInt(f)))
           IN  FAdd(d0, d1)

\* sorted(d["samples"]) on floats
RECURSIVE SortedReal(_)
SortedReal(samples) ==
  IF samples = << >> THEN << >>
  ELSE LET rest == SortedReal(Tail(samples))
           x    == Head(samples)
           n    == Cardinality({i \in DOMAIN rest : FCmp(rest[i], x) < 0})
       IN  SubSeq(rest, 1, n) \o <<x>> \o SubSeq(rest, n + 1, Len(rest))

\* sum(s), added from the left
RECURSIVE SumReal(_, _)
SumReal(s, acc) == IF s = << >> THEN acc ELSE SumReal(Tail(s), FAdd(acc, Head(s)))

\* the statistics of the row of a label with the non-empty list samples:
\* avg, pct90, pct95 and pct99 are rounded to hundredths, min and max are
\* the samples themselves
RowStatistics(samples) ==
  LET s     == SortedReal(samples)
      count == Len(s)
  IN  [count |-> count,
       avg   |-> FRound2(FDivSmall(SumReal(s, FZero), count)),
       min   |-> s[1],
       max   |-> s[Len(s)],
       pct90 |-> FRound2(percentile_real(s, 90)),
       pct95 |-> FRound2(percentile_real(s, 95)),
       pct99 |-> FRound2(percentile_real(s, 99))]

\* sorted(res, key=lambda x: x["count"], reverse=True): a stable sort, rows
\* of equal count keep their order
RECURSIVE SortByCount(_)
SortByCount(res) ==
  IF res = << >> THEN << >>
  ELSE LET rest == SortByCount(SubSeq(res, 1, Len(res) - 1))
           x    == res[Len(res)]
           n    == Cardinality({i \in DOMAIN rest : rest[i].count >= x.count})
       IN  SubSeq(rest, 1, n) \o <<x>> \o SubSeq(rest, n + 1, Len(rest))

\* a faulty variant: without a start parameter only the samples of the
\* current second are selected
api_aggregate_sliding(args, db) ==
  LET start == IF args.start = None THEN Some(now) ELSE args.start
      rows  == SelectSamples(db, args.label, start, args.end)
      keys  == AggKeys(rows, << >>)
      res   == [i \in DOMAIN keys |-> AggregateRow(keys[i], rows)]
  IN  [kind |-> "aggregate", req |-> args, rows |-> SortByCount(res)]

\* GET /api/aggregate (notreqired.py)
api_aggregate(args, db) ==
  LET rows == SelectSamples(db, args.label, args.start, args.end)
      keys == AggKeys(rows, << >>)
      res  == [i \in DOMAIN keys |-> AggregateRow(keys[i], rows)]
  IN  [kind |-> "aggregate", req |-> args, rows |-> SortByCount(res)]

\* GET /api/aggregate (server.py).  The handler resolves start, end and
\* duration and then runs `cur = db.cursor()`; the module binds the name db
\* nowhere, so the statement raises NameError for every request and every
\* store, and the request is answered 500 without a body of rows.
api_aggregate_samples(args, clock) ==
  LET windowed == args.duration # None /\ args.duration[1] # 0
      end   == IF windowed THEN Some(clock) ELSE args.end
      start == IF windowed THEN Some(clock - args.duration[1]) ELSE args.start
  IN  [kind |-> "aggregate_failed", req |-> args, code |-> 500]

(***************************************************************************)
(* GET /api/errors and GET /api/success.  rows is the set of the groups of  *)
(* a response; the order they are returned in is chosen by the action.     *)
(***************************************************************************)
\* ... FROM jmeter_samples WHERE success=? [AND timestamp >= ?]
\* [AND timestamp <= ?]: a condition is added for a bound that is truthy
SelectBySuccess(db, success, start, end) ==
  SelectSeq(db, LAMBDA r :
    /\ r.success = success
    /\ (start # None /\ start[1] # 0 => r.timestamp >= start[1])
    /\ (end # None /\ end[1] # 0 => r.timestamp <= end[1]))

\* GROUP_CONCAT(DISTINCT error_message): the distinct messages of the rows,
\* in the order they are met, joined by commas
RECURSIVE GroupConcat(_, _, _)
GroupConcat(rows, seen, acc) ==
  IF rows = << >> THEN acc
  ELSE LET msg == Head(rows).error_message
       IN  IF msg \in seen THEN GroupConcat(Tail(rows), seen, acc)
           ELSE GroupConcat(Tail(rows), seen \cup {msg},
                            IF seen = {} THEN msg ELSE acc \o "," \o msg)

\* ORDER BY COUNT(*) DESC: the lists of the rows with counts that do not
\* increase; SQL leaves the order of rows of equal count open
OrderByCountDesc(rows) ==
  {list \in [1..Cardinality(rows) -> rows] :
     /\ \A i, j \in DOMAIN list : i # j => list[i] # list[j]
     /\ \A i, j \in DOMAIN list : i < j => list[i].count >= list[j].count}

api_errors(args, db) ==
  LET rows == SelectBySuccess(db, 0, args.start, args.end)
      keys == {<<rows[i].label, rows[i].status_code>> : i \in DOMAIN rows}
  IN  [kind |-> "errors", req |-> args,
       rows |-> {LET mine == SelectSeq(rows, LAMBDA r :
                                r.label = k[1] /\ r.status_code = k[2])
                 IN  [label   |-> k[1],
                      status  |-> k[2],
                      count   |-> Len(mine),
                      message |-> GroupConcat(mine, {}, "")]
                 : k \in keys}]

api_success(args, db) ==
  LET rows == SelectBySuccess(db, 1, args.start, args.end)
      keys == {rows[i].label : i \in DOMAIN rows}
  IN  [kind |-> "success", req |-> args,
       rows |-> {LET mine == SelectSeq(rows, LAMBDA r : r.label = k)
                     rts  == [i \in DOMAIN mine |-> mine[i].response_time]
                 IN  [label |-> k,
                      count |-> Len(mine),
                      avg   |-> FRound2(FDivInt(Sum(rts), Len(rts))),
                      min   |-> SetMin({rts[i] : i \in DOMAIN rts}),
                      max   |-> SetMax({rts[i] : i \in DOMAIN rts})]
                 : k \in keys}]

(***************************************************************************)
(* The state: the table jmeter_samples, the server clock int(time.time()), *)
(* the response of the request just handled, until the client takes it,    *)
(* and, for the helper percentile taken alone, its arguments and result.   *)
(* Requests are handled one at a time here; a handler runs from its first  *)
(* line to its return in one step.  job is the handler that runs beside    *)
(* the others, where one is followed query by query: its position and what *)
(* it has read so far.                                                     *)
(***************************************************************************)
MaxStore == 3
MaxClock == 3
MaxLen == 3

NoResp == [kind |-> "none"]
NoCall == [sorted_list |-> << >>, pct |-> 0]
NoRet == [done |-> FALSE, val |-> None]
NoJob == [pc |-> "idle"]

Init ==
  /\ store = << >>
  /\ now = 1
  /\ resp = NoResp
  /\ call = NoCall
  /\ ret = NoRet
  /\ job = NoJob

\* the clock advances
Tick ==
  /\ now < MaxClock
  /\ now' = now + 1
  /\ UNCHANGED <<store, resp, call, ret, job>>

\* a faulty variant: a row equal to a stored one is not inserted again
Ingest_dedup(data) ==
  /\ resp = NoResp
  /\ Len(store) < MaxStore
  /\ LET r == receive_metrics(data, now)
     IN  /\ store' = IF r.row = None \/ (\E j \in DOMAIN store : store[j] = r.row[1])
                     THEN store ELSE Append(store, r.row[1])
         /\ resp' = [kind |-> "metrics", req |-> data, code |-> r.code]
  /\ UNCHANGED <<now, call, ret, job>>

\* POST /metrics with body data: INSERT and commit, or an error response
Ingest(data) ==
  /\ resp = NoResp
  /\ Len(store) < MaxStore
  /\ LET r == receive_metrics(data, now)
     IN  /\ store' = IF r.row = None THEN store ELSE Append(store, r.row[1])
         /\ resp' = [kind |-> "metrics", req |-> data, code |-> r.code]
  /\ UNCHANGED <<now, call, ret, job>>

\* the client takes the response
Deliver ==
  /\ resp # NoResp
  /\ resp' = NoResp
  /\ UNCHANGED <<store, now, call, ret, job>>

ApiTps(args) ==
  /\ resp = NoResp
  /\ resp' = api_tps(args, store, now)
  /\ UNCHANGED <<store, now, call, ret, job>>

ApiThreads(args) ==
  /\ resp = NoResp
  /\ resp' = api_threads(args, store, now)
  /\ UNCHANGED <<store, now, call, ret, job>>

ApiErrorpct(args) ==
  /\ resp = NoResp
  /\ resp' = api_errorpct(args, store, store, now)
  /\ UNCHANGED <<store, now, call, ret, job>>

ApiAggregate(args) ==
  /\ resp = NoResp
  /\ resp' = api_aggregate(args, store)
  /\ UNCHANGED <<store, now, call, ret, job>>

\* a faulty variant: the failing samples reported are deleted from the table
ApiErrors_purge(args) ==
  /\ resp = NoResp
  /\ \E list \in OrderByCountDesc(api_errors(args, store).rows) :
       resp' = [kind |-> "errors", req |-> args,
                rows |-> api_errors(args, store).rows, list |-> list]
  /\ store' = SelectSeq(store, LAMBDA r : r.success = 1)
  /\ UNCHANGED <<now, call, ret, job>>

\* GET /api/errors: the rows in an order ORDER BY COUNT(*) DESC allows
ApiErrors(args) ==
  /\ resp = NoResp
  /\ \E list \in OrderByCountDesc(api_errors(args, store).rows) :
       resp' = [kind |-> "errors", req |-> args,
                rows |-> api_errors(args, store).rows, list |-> list]
  /\ UNCHANGED <<store, now, call, ret, job>>

\* GET /api/success: the rows in an order ORDER BY COUNT(*) DESC allows
ApiSuccess(args) ==
  /\ resp = NoResp
  /\ \E list \in OrderByCountDesc(api_success(args, store).rows) :
       resp' = [kind |-> "success", req |-> args,
                rows |-> api_success(args, store).rows, list |-> list]
  /\ UNCHANGED <<store, now, call, ret, job>>

ApiAggregateSamples(args) ==
  /\ resp = NoResp
  /\ resp' = api_aggregate_samples(args, now)
  /\ UNCHANGED <<store, now, call, ret, job>>

(***************************************************************************)
(* Handlers followed query by query.  Every run_query call opens its own   *)
(* connection and reads the table as committed at that moment; the server  *)
(* handles requests in threads, so an ingest can commit between two        *)
(* queries of one handler.                                                 *)
(***************************************************************************)
\* GET /api/errorpct up to its first query: the range is resolved from the
\* clock, then total_rows is read
ErrorpctTotal(args) ==
  /\ job = NoJob
  /\ job' = [pc |-> "err_rows", req |-> args, clock |-> now, total |-> store]
  /\ UNCHANGED <<store, now, resp, call, ret>>

\* GET /api/errorpct from its second query, err_rows, to its return
ErrorpctErr ==
  /\ job.pc = "err_rows"
  /\ resp = NoResp
  /\ resp' = api_errorpct(job.req, job.total, store, job.clock)
  /\ job' = NoJob
  /\ UNCHANGED <<store, now, call, ret>>

\* GET /download/snapshot.html (notreqired.py): agg = api_aggregate(); the
\* three handlers read the query string of the snapshot request
SnapshotAggregate(args) ==
  /\ job = NoJob
  /\ job' = [pc |-> "errs", req |-> args, agg |-> api_aggregate(args, store).rows]
  /\ UNCHANGED <<store, now, resp, call, ret>>

\* errs = api_errors()
SnapshotErrors ==
  /\ job.pc = "errs"
  /\ job' = [pc |-> "succ", req |-> job.req, agg |-> job.agg,
             errs |-> api_errors(job.req, store).rows]
  /\ UNCHANGED <<store, now, resp, call, ret>>

\* succ = api_success(), and the page is returned
SnapshotSuccess ==
  /\ job.pc = "succ"
  /\ resp = NoResp
  /\ resp' = [kind |-> "snapshot", req |-> job.req, agg |-> job.agg,
              errs |-> job.errs, succ |-> api_success(job.req, store).rows]
  /\ job' = NoJob
  /\ UNCHANGED <<store, now, call, ret>>

\* GET /download/snapshot.html (server.py): agg = api_aggregate() raises
\* NameError in the aggregate handler, and the request is answered 500
SnapshotSamples(args) ==
  /\ resp = NoResp
  /\ resp' = [kind |-> "snapshot_failed", req |-> args,
              code |-> api_aggregate_samples(
                         [start |-> args.start, end |-> args.end, duration |-> None],
                         now).code]
  /\ UNCHANGED <<store, now, call, ret, job>>

(***************************************************************************)
(* Request bodies and query strings.                                       *)
(***************************************************************************)
PayloadsSeries ==
  {[label |-> JStr("A"), success |-> JBool(TRUE), activeThreads |-> JInt(1)],
   [label |-> JStr("A"), success |-> JBool(FALSE), statusCode |-> JInt(500),
    errorMessage |-> JStr("boom"), activeThreads |-> JInt(2)],
   [sampler |-> JStr("B"), errorPct |-> JInt(5), threads |-> JInt(4)]}

WindowArgs == [window : {None, Some(-1), Some(0), Some(3)}, end : {None, Some(0), Some(2)}]

ErrorpctArgs ==
  [window : {Some(2)}, start : {None}, end : {None, Some(2)}, label : {None, Some("A")}]
  \cup [window : {Some(-1), Some(2)}, start : {Some(1)}, end : {None}, label : {None}]
  \cup [window : {None}, start : {None, Some(0), Some(2), Some(3)},
        end : {None, Some(0), Some(2)}, label : {None}]
  \cup [window : {None}, start : {None, Some(2)}, end : {None}, label : {Some("A")}]
  \cup [window : {Some(0)}, start : {Some(2)}, end : {Some(3)}, label : {None, Some("")}]

\* the time-series endpoints over a growing store
NextSeries ==
  \/ Tick
  \/ Deliver
  \/ \E data \in PayloadsSeries : Ingest(data)
  \/ \E args \in WindowArgs : ApiTps(args)
  \/ \E args \in WindowArgs : ApiThreads(args)
  \/ \E args \in ErrorpctArgs : ApiErrorpct(args)

SpecSeries == Init /\ [][NextSeries]_vars

PayloadsAggregate ==
  {[label |-> JStr("A"), responseTime |-> JInt(100), success |-> JBool(TRUE)],
   [label |-> JStr("A"), avgResponseTime |-> JInt(200), errorPct |-> JInt(0)],
   [label |-> JStr("A"), avg |-> JInt(300)],
   [label |-> JStr("A"), responseTime |-> JInt(100), success |-> JBool(FALSE)],
   [sampler |-> JStr("B"), responseTime |-> JInt(200), success |-> JBool(FALSE),
    rc |-> JInt(500), errorMsg |-> JStr("boom")]}

AggregateArgs ==
  [label : {None, Some("A")}, start : {None, Some(2)}, end : {None, Some(2)}]

\* requests with a bound of 0 or an empty label
AggregateZeroArgs ==
  [label : {None}, start : {Some(0)}, end : {None, Some(3)}]
  \cup [label : {None, Some("")}, start : {None}, end : {Some(0)}]

AggregateSamplesArgs ==
  [start : {None, Some(2)}, end : {None}, duration : {None, Some(2)}]

TableArgs == [start : {None, Some(0), Some(2)}, end : {None, Some(0), Some(2)}]

\* the aggregate endpoint, in its two definitions, over a growing store
NextAggregate ==
  \/ Tick
  \/ Deliver
  \/ \E data \in PayloadsAggregate : Ingest(data)
  \/ \E args \in AggregateArgs : ApiAggregate(args)
  \/ \E args \in AggregateSamplesArgs : ApiAggregateSamples(args)

SpecAggregate == Init /\ [][NextAggregate]_vars

\* the three queries that take start and end as optional bounds, over a
\* growing store
NextTables ==
  \/ Tick
  \/ Deliver
  \/ \E data \in PayloadsAggregate : Ingest(data)
  \/ \E args \in AggregateZeroArgs : ApiAggregate(args)
  \/ \E args \in TableArgs : ApiErrors(args)
  \/ \E args \in TableArgs : ApiSuccess(args)

SpecTables == Init /\ [][NextTables]_vars

\* request bodies for the ingest endpoint taken alone: the empty object, an
\* object without a recognized key, explicit and derived success flags,
\* failures with and without a message, an empty label, and values that
\* do not convert
PayloadsIngest ==
  {<< >>,
   [foo |-> JInt(1)],
   [label |-> JStr("A"), success |-> JBool(TRUE), errorPct |-> JInt(5),
    errorMessage |-> JStr("late")],
   [label |-> JStr("A"), success |-> JBool(FALSE), errorPct |-> JInt(0)],
   [label |-> JStr("A"), success |-> JBool(FALSE), errorMessage |-> JStr("down")],
   [sampler |-> JStr("B"), errorPct |-> JInt(5), rc |-> JInt(500),
    errorMsg |-> JStr("boom")],
   [label |-> JStr("A"), sampler |-> JStr("B"), errorPct |-> JInt(0)],
   [sampler |-> JStr("B"), errorPct |-> JInt(-1)],
   [label |-> JStr("")],
   [label |-> JStr("A"), threads |-> JStr("many")],
   [label |-> JStr("A"), avg |-> JStr("slow")],
   [label |-> JStr("A"), errorPct |-> JStr("high")]}

\* the ingest endpoint over a growing store
NextIngest ==
  \/ Tick
  \/ Deliver
  \/ \E data \in PayloadsIngest : Ingest(data)

SpecIngest == Init /\ [][NextIngest]_vars

\* request bodies for the handlers followed query by query: a success and
\* a failure of one label, and a failure of another
PayloadsConcurrent ==
  {[label |-> JStr("A"), responseTime |-> JInt(100), success |-> JBool(TRUE)],
   [label |-> JStr("A"), responseTime |-> JInt(300), success |-> JBool(FALSE),
    rc |-> JInt(500), errorMsg |-> JStr("boom")],
   [sampler |-> JStr("B"), responseTime |-> JInt(200), success |-> JBool(FALSE)]}

ConcurrentErrorpctArgs ==
  [window : {Some(3)}, start : {None}, end : {None}, label : {None, Some("A")}]

\* the error-rate query beside the ingest endpoint
NextErrorpct ==
  \/ Tick
  \/ Deliver
  \/ \E data \in PayloadsConcurrent : Ingest(data)
  \/ \E args \in ConcurrentErrorpctArgs : ErrorpctTotal(args)
  \/ ErrorpctErr

SpecErrorpct == Init /\ [][NextErrorpct]_vars

SnapshotArgs == [label : {None}, start : {None}, end : {None, Some(2)}]

\* the snapshot download, in its two definitions, beside the ingest endpoint
NextSnapshot ==
  \/ Tick
  \/ Deliver
  \/ \E data \in PayloadsConcurrent : Ingest(data)
  \/ \E args \in SnapshotArgs : SnapshotAggregate(args)
  \/ SnapshotErrors
  \/ SnapshotSuccess
  \/ \E args \in SnapshotArgs : SnapshotSamples(args)

SpecSnapshot == Init /\ [][NextSnapshot]_vars

PayloadsStore ==
  {[label |-> JStr("A"), responseTime |-> JInt(100), success |-> JBool(TRUE),
    activeThreads |-> JInt(2)],
   [sampler |-> JStr("B"), responseTime |-> JInt(200), success |-> JBool(FALSE),
    rc |-> JInt(500), errorMsg |-> JStr("boom")]}

StoreWindowArgs == [window : {Some(3)}, end : {None}]

StoreErrorpctArgs == [window : {Some(3)}, start : {None}, end : {None}, label : {None}]

StoreTableArgs == [label : {None}, start : {None}, end : {None}]

\* every operation of the server on the store: the ingest endpoint and
\* every query
NextStore ==
  \/ Tick
  \/ Deliver
  \/ \E data \in PayloadsStore : Ingest(data)
  \/ \E args \in StoreWindowArgs : ApiTps(args)
  \/ \E args \in StoreWindowArgs : ApiThreads(args)
  \/ \E args \in StoreErrorpctArgs : ApiErrorpct(args)
  \/ \E args \in StoreTableArgs : ApiAggregate(args)
  \/ \E args \in StoreTableArgs : ApiErrors(args)
  \/ \E args \in StoreTableArgs : ApiSuccess(args)
  \/ \E args \in StoreTableArgs : SnapshotAggregate(args)
  \/ SnapshotErrors
  \/ SnapshotSuccess
  \/ \E args \in StoreTableArgs : SnapshotSamples(args)

SpecStore == Init /\ [][NextStore]_vars

\* request bodies with values the handler does not look at or does not
\* check: a timestamp of the sender, alone and beside other keys, a
\* negative response time and a negative thread count
PayloadsValues ==
  {<< >>,
   [timestamp |-> JInt(5)],
   [label |-> JStr("A"), responseTime |-> JInt(100), threads |-> JInt(2)],
   [label |-> JStr("A"), responseTime |-> JInt(100), threads |-> JInt(2),
    timestamp |-> JInt(0)],
   [label |-> JStr("A"), responseTime |-> JInt(100), threads |-> JInt(2),
    ts |-> JInt(7)],
   [label |-> JStr("A"), responseTime |-> JInt(-5)],
   [label |-> JStr("A"), activeThreads |-> JInt(-2)]}

\* the ingest endpoint over these bodies
NextValues ==
  \/ Tick
  \/ Deliver
  \/ \E data \in PayloadsValues : Ingest(data)

SpecValues == Init /\ [][NextValues]_vars

(***************************************************************************)
(* percentile taken alone: every ascending list of response times of at    *)
(* most MaxLen elements and one list of 26, every whole pct from 0 to 100. *)
(* With 26 elements the rank (n-1)*pct/100 is whole for every pct that is  *)
(* a multiple of 4.                                                        *)
(***************************************************************************)
RtValues == {100, 200, 300}

LongList == [i \in 1..26 |-> IF i <= 8 THEN 100 ELSE 200]

SortedLists ==
  UNION {{l \in [1..n -> RtValues] : \A i \in 1..(n - 1) : l[i] <= l[i + 1]}
         : n \in 0..MaxLen}
    \cup {LongList}

InitPercentile ==
  /\ store = << >>
  /\ now = 1
  /\ resp = NoResp
  /\ call \in [sorted_list : SortedLists, pct : 0..100]
  /\ ret = NoRet
  /\ job = NoJob

CallPercentile ==
  /\ ~ret.done
  /\ ret' = [done |-> TRUE, val |-> percentile(call.sorted_list, call.pct)]
  /\ UNCHANGED <<store, now, resp, call, job>>

NextPercentile == CallPercentile

SpecPercentile == InitPercentile /\ [][NextPercentile]_vars

(***************************************************************************)
(* The statistics of a row taken alone: every list of at most MaxLen       *)
(* response times, whole or not.                                           *)
(***************************************************************************)
\* 0.125, 100, 100.004, 100.1 and 300 ms
RealValues ==
  {FDivInt(1, 8), FFromInt(100), FDivInt(100004, 1000), FDivInt(1001, 10),
   FFromInt(300)}

SampleLists == UNION {[1..n -> RealValues] : n \in 1..MaxLen}

InitRow ==
  /\ store = << >>
  /\ now = 1
  /\ resp = NoResp
  /\ call \in [samples : SampleLists]
  /\ ret = NoRet
  /\ job = NoJob

CallRowStatistics ==
  /\ ~ret.done
  /\ ret' = [done |-> TRUE, val |-> RowStatistics(call.samples)]
  /\ UNCHANGED <<store, now, resp, call, job>>

NextRow == CallRowStatistics

SpecRow == InitRow /\ [][NextRow]_vars

(***************************************************************************)
(* The properties.  In a series response the values of the concurrency and *)
(* error-rate series are in hundredths (150 is 1.5, 5000 is 50.0).         *)
(***************************************************************************)
IsSeries == resp.kind \in {"tps", "threads", "errorpct"}

\* num / den rounded to the nearest integer, ties to even, in exact arithmetic
RoundHalfEven(num, den) ==
  LET q == num \div den
      r == num % den
  IN  IF 2 * r < den THEN q
      ELSE IF 2 * r > den THEN q + 1
      ELSE IF q % 2 = 0 THEN q ELSE q + 1

\* the value a series response gives for second s
ValueAt(s) == resp.values[s - resp.start + 1]

\* x is exactly n / 100
ExactHundredths(x, n) ==
  IF x.e >= 0 THEN BShl(BMulSmall(x.m, 100), x.e) = BFromInt(n)
  ELSE BMulSmall(x.m, 100) = BShl(BFromInt(n), 0 - x.e)

\* C1 as stated: every time-series response has end-start+1 timestamps and
\* end-start+1 values, for every resolved window [start,end] and every store.
C1_LengthIsWindowSize ==
  IsSeries => /\ Len(resp.timestamps) = resp.end - resp.start + 1
              /\ Len(resp.values) = resp.end - resp.start + 1

\* C1 amended: every time-series response has end-start+1 timestamps and
\* end-start+1 values when start <= end, and none of either when start > end.
C1_LengthIsWindowSizeOrZero ==
  IsSeries =>
    LET n == IF resp.start <= resp.end THEN resp.end - resp.start + 1 ELSE 0
    IN  Len(resp.timestamps) = n /\ Len(resp.values) = n

\* C1 witness: a concurrency series of three seconds over a store that has
\* samples in one of them only.
C1_Witness ==
  /\ resp.kind = "threads"
  /\ resp.start = 1 /\ resp.end = 3
  /\ Len(resp.values) = 3
  /\ {store[i].timestamp : i \in DOMAIN store} = {2}

\* C2: the timestamps of a series are start, start+1, ..., end in ascending
\* order, each once, whichever seconds have samples: no gap, no duplicate.
C2_TimestampsAreTheWindow ==
  IsSeries =>
    /\ \A s \in resp.start..resp.end : \E i \in DOMAIN resp.timestamps :
         resp.timestamps[i] = s
    /\ \A i \in DOMAIN resp.timestamps :
         resp.timestamps[i] \in resp.start..resp.end
    /\ \A i \in 1..(Len(resp.timestamps) - 1) :
         resp.timestamps[i + 1] = resp.timestamps[i] + 1

\* C2 witness: a series over seconds 1..3 with samples at seconds 1 and 3 only.
C2_Witness ==
  /\ IsSeries
  /\ resp.timestamps = <<1, 2, 3>>
  /\ {store[i].timestamp : i \in DOMAIN store} = {1, 3}

\* C3: the throughput series has, at each second s of the window, the number
\* of stored samples whose timestamp is s (0 when there is none).
C3_ThroughputCountsSamples ==
  resp.kind = "tps" =>
    /\ Len(resp.values) = Len(resp.timestamps)
    /\ \A i \in DOMAIN resp.timestamps :
         resp.values[i] =
           Cardinality({j \in DOMAIN store :
                          store[j].timestamp = resp.timestamps[i]})
    /\ \A s \in resp.start..resp.end :
         ValueAt(s) = Cardinality({j \in DOMAIN store : store[j].timestamp = s})

\* C3 witness: samples at seconds 1 and 3 only give 1, 0, 1 over [1,3].
C3_Witness ==
  /\ resp.kind = "tps"
  /\ resp.start = 1 /\ resp.end = 3
  /\ resp.values = <<1, 0, 1>>

\* the samples at second s that match the label filter of the request (an
\* absent or empty label parameter is no filter)
Matching(s, label) ==
  {j \in DOMAIN store :
     /\ store[j].timestamp = s
     /\ (label # None /\ label # Some("") => store[j].label = label[1])}

\* C4: the error-rate series has, at each second s of the window,
\* round(error_count/total_count*100, 2) over the stored samples at s that
\* match the label filter, and 0 when there is no such sample.
C4_ErrorRatePerSecond ==
  resp.kind = "errorpct" =>
    \A s \in resp.start..resp.end :
      LET M   == Matching(s, resp.req.label)
          err == Cardinality({j \in M : store[j].success = 0})
      IN  ValueAt(s) = IF M = {} THEN 0
                       ELSE RoundHalfEven(err * 10000, Cardinality(M))

\* C4 witness: two samples in one second, one of them failing, give 50.0.
C4_Witness ==
  /\ resp.kind = "errorpct"
  /\ resp.req.label = None
  /\ \E s \in resp.start..resp.end :
       /\ Cardinality({j \in DOMAIN store : store[j].timestamp = s}) = 2
       /\ ValueAt(s) = 5000

\* C5: the concurrency series has, at each second s of the window, the mean
\* of thread_count over the stored samples at s rounded to 2 decimals, and 0
\* when there is no sample at s.
C5_MeanThreadsPerSecond ==
  resp.kind = "threads" =>
    \A s \in resp.start..resp.end :
      LET G == {j \in DOMAIN store : store[j].timestamp = s}
      IN  ValueAt(s) = IF G = {} THEN 0
                       ELSE RoundHalfEven(100 * SumThreads(store, G),
                                          Cardinality(G))

\* C5 witness: thread counts 1 and 2 in one second give 1.5, and an empty
\* second of the same window gives 0.
C5_Witness ==
  /\ resp.kind = "threads"
  /\ \E s \in resp.start..resp.end : ValueAt(s) = 150
  /\ \E s \in resp.start..resp.end : ValueAt(s) = 0

\* C6: a time-series query whose resolved window has start > end returns an
\* empty series, no timestamps and no values, as an ordinary response.
C6_EmptyWindowEmptySeries ==
  IsSeries /\ resp.start > resp.end =>
    resp.timestamps = << >> /\ resp.values = << >>

\* C6 witness: an error-rate query with start=3 and end=2 over a store that
\* holds samples.
C6_Witness ==
  /\ resp.kind = "errorpct"
  /\ resp.start = 3 /\ resp.end = 2
  /\ store # << >>

\* C7 as stated: for a non-empty ascending list S and p in [0,100],
\* min(S) <= percentile(S,p) <= max(S), percentile(S,0) = min(S) and
\* percentile(S,100) = max(S).
C7_PercentileWithinMinMax ==
  ret.done /\ call.sorted_list # << >> =>
    LET S == call.sorted_list
        x == ret.val[1]
    IN  /\ FCmp(FFromInt(S[1]), x) <= 0
        /\ FCmp(x, FFromInt(S[Len(S)])) <= 0
        /\ (call.pct = 0 => x = FFromInt(S[1]))
        /\ (call.pct = 100 => x = FFromInt(S[Len(S)]))

\* C8 as stated: with k = (n-1)*p/100, percentile returns the element at
\* index k when k is an integer, and otherwise the linear interpolation
\* S[floor(k)]*(ceil(k)-k) + S[ceil(k)]*(k-floor(k)).
C8_PercentileIsInterpolation ==
  ret.done /\ call.sorted_list # << >> =>
    LET S == call.sorted_list
        K == (Len(S) - 1) * call.pct
        f == K \div 100
        x == ret.val[1]
    IN  IF K % 100 = 0 THEN x = FFromInt(S[f + 1])
        ELSE ExactHundredths(x, S[f + 1] * (100 * (f + 1) - K)
                                + S[f + 2] * (K - 100 * f))

\* C9: on an empty list percentile returns None for every p: no number, and
\* no exception.
C9_EmptyListGivesNone ==
  ret.done /\ call.sorted_list = << >> => ret.val = None

\* C9 witness: percentile([], 90) has returned.
C9_Witness ==
  /\ ret.done
  /\ call.sorted_list = << >>
  /\ call.pct = 90

\* the labels of the request bodies, in lexical order
LabelsInOrder == <<"A", "B">>

LexRank(l) == CHOOSE i \in DOMAIN LabelsInOrder : LabelsInOrder[i] = l

\* the stored samples an aggregate request matches: its label, and its
\* inclusive time bounds, where supplied
MatchingSamples(req) ==
  {j \in DOMAIN store :
     /\ ("label" \in DOMAIN req /\ req.label # None
           => store[j].label = req.label[1])
     /\ (req.start # None => store[j].timestamp >= req.start[1])
     /\ (req.end # None => store[j].timestamp <= req.end[1])}

\* C10 as stated: the Aggregate query answers with rows, one per distinct
\* label among the matching samples, in descending order of count, rows of
\* equal count in lexical order of label, whatever the order of ingestion.
C10_RowsByCountThenLabel ==
  resp.kind \in {"aggregate", "aggregate_failed"} =>
    /\ resp.kind = "aggregate"
    /\ {resp.rows[i].label : i \in DOMAIN resp.rows}
         = {store[j].label : j \in MatchingSamples(resp.req)}
    /\ \A i, j \in DOMAIN resp.rows :
         i < j => /\ resp.rows[i].label # resp.rows[j].label
                  /\ resp.rows[i].count >= resp.rows[j].count
                  /\ (resp.rows[i].count = resp.rows[j].count
                        => LexRank(resp.rows[i].label)
                             < LexRank(resp.rows[j].label))

\* the stored samples the percentile-bearing aggregate handler selects for a
\* request: a parameter that is absent, 0 or the empty string adds no condition
SelectedSamples(req) ==
  {j \in DOMAIN store :
     /\ (req.label # None /\ req.label # Some("") => store[j].label = req.label[1])
     /\ (req.start # None /\ req.start # Some(0)
           => store[j].timestamp >= req.start[1])
     /\ (req.end # None /\ req.end # Some(0) => store[j].timestamp <= req.end[1])}

\* the selected samples of label l
OfLabel(req, l) == {j \in SelectedSamples(req) : store[j].label = l}

\* C11: in every aggregate row, with success_count and error_count the
\* numbers of the row's samples that succeeded and that failed,
\* success_count + error_count = count, error_pct is
\* round(error_count/count*100, 2) when count > 0 and 0 when count = 0.
C11_ErrorPctOfRow ==
  resp.kind = "aggregate" =>
    \A i \in DOMAIN resp.rows :
      LET row           == resp.rows[i]
          G             == OfLabel(resp.req, row.label)
          success_count == Cardinality({j \in G : store[j].success = 1})
          error_count   == Cardinality({j \in G : store[j].success = 0})
      IN  /\ row.count = Cardinality(G)
          /\ success_count + error_count = row.count
          /\ row.error_pct = IF row.count > 0
                              THEN RoundHalfEven(error_count * 10000, row.count)
                              ELSE 0

\* C11 witness: a row of three samples, one of them failing: 33.33.
C11_Witness ==
  /\ resp.kind = "aggregate"
  /\ \E i \in DOMAIN resp.rows :
       resp.rows[i].count = 3 /\ resp.rows[i].error_pct = 3333

\* the response times of the samples G of the store, in ascending order
RECURSIVE AscendingTimes(_)
AscendingTimes(G) ==
  IF G = {} THEN << >>
  ELSE LET j == CHOOSE j \in G :
                  \A k \in G : store[j].response_time <= store[k].response_time
       IN  <<store[j].response_time>> \o AscendingTimes(G \ {j})

\* the p-th percentile of the non-empty ascending list S by linear
\* interpolation between the ranks around (n-1)*p/100, in hundredths, in
\* exact arithmetic
InterpolatedHundredths(S, p) ==
  LET K == (Len(S) - 1) * p
      f == K \div 100
  IN  IF K % 100 = 0 THEN 100 * S[f + 1]
      ELSE S[f + 1] * (100 * (f + 1) - K) + S[f + 2] * (K - 100 * f)

\* C12: the row of a label has count the number of the label's selected
\* samples, avg their mean response time rounded to 2 decimals, min and max
\* the smallest and the largest response time, and pct90, pct95, pct99 the
\* 90th, 95th and 99th percentile of the sorted response times rounded to 2
\* decimals.
C12_RowStatistics ==
  resp.kind = "aggregate" =>
    \A i \in DOMAIN resp.rows :
      LET row == resp.rows[i]
          G   == OfLabel(resp.req, row.label)
          S   == AscendingTimes(G)
      IN  /\ G # {}
          /\ row.count = Cardinality(G)
          /\ row.avg = RoundHalfEven(100 * Sum(S), Len(S))
          /\ row.min = S[1]
          /\ row.max = S[Len(S)]
          /\ row.pct90 = InterpolatedHundredths(S, 90)
          /\ row.pct95 = InterpolatedHundredths(S, 95)
          /\ row.pct99 = InterpolatedHundredths(S, 99)

\* C12 witness: three successful samples of 300, 100 and 200 ms, ingested in
\* that order, give count 3, avg 200.0, min 100, max 300, p90 280, error_pct 0.
C12_Witness ==
  /\ resp.kind = "aggregate"
  /\ [j \in DOMAIN store |-> store[j].response_time] = <<300, 100, 200>>
  /\ \E i \in DOMAIN resp.rows :
       /\ resp.rows[i].count = 3
       /\ resp.rows[i].avg = 20000
       /\ resp.rows[i].min = 100
       /\ resp.rows[i].max = 300
       /\ resp.rows[i].pct90 = 28000
       /\ resp.rows[i].error_pct = 0

C14_LabelFilter ==
  resp.kind = "aggregate" /\ resp.req.label # None /\ resp.req.label # Some("") =>
    LET l == resp.req.label[1]
        G == {j \in DOMAIN store :
                /\ store[j].label = l
                /\ (resp.req.start # None /\ resp.req.start # Some(0)
                      => store[j].timestamp >= resp.req.start[1])
                /\ (resp.req.end # None /\ resp.req.end # Some(0)
                      => store[j].timestamp <= resp.req.end[1])}
    IN  IF G = {} THEN resp.rows = << >>
        ELSE /\ Len(resp.rows) = 1
             /\ resp.rows[1].label = l
             /\ resp.rows[1].count = Cardinality(G)
             /\ resp.rows[1].min = SetMin({store[j].response_time : j \in G})
             /\ resp.rows[1].max = SetMax({store[j].response_time : j \in G})

\* C14 witness: a request for label A over a store that holds samples of A
\* and of B, the sample of B the slowest, answered with the one row of A.
C14_Witness ==
  /\ resp.kind = "aggregate"
  /\ resp.req.label = Some("A")
  /\ Len(resp.rows) = 1
  /\ \E j, k \in DOMAIN store :
       /\ store[j].label = "A"
       /\ store[k].label = "B"
       /\ store[k].response_time > resp.rows[1].max

\* the stored samples within the bounds of a request as C15 reads them: a
\* supplied bound, 0 included, is inclusive; an absent bound is no bound
WithinBounds(req) ==
  {j \in DOMAIN store :
     /\ (req.start # None => store[j].timestamp >= req.start[1])
     /\ (req.end # None => store[j].timestamp <= req.end[1])}

\* C15 as stated: the rows of an Aggregate, Errors or Success response are
\* computed from exactly the samples with start <= timestamp <= end, for
\* every supplied bound, 0 included, an absent bound leaving its side open.
C15_BoundsInclusive ==
  /\ resp.kind = "aggregate" =>
        LET P == {j \in WithinBounds(resp.req) :
                    resp.req.label # None /\ resp.req.label # Some("")
                      => store[j].label = resp.req.label[1]}
        IN  {<<resp.rows[i].label, resp.rows[i].count>> : i \in DOMAIN resp.rows}
              = {<<store[j].label,
                   Cardinality({k \in P : store[k].label = store[j].label})>>
                 : j \in P}
  /\ resp.kind = "errors" =>
        LET P == {j \in WithinBounds(resp.req) : store[j].success = 0}
        IN  {<<r.label, r.status, r.count>> : r \in resp.rows}
              = {<<store[j].label, store[j].status_code,
                   Cardinality({k \in P :
                                  /\ store[k].label = store[j].label
                                  /\ store[k].status_code = store[j].status_code})>>
                 : j \in P}
  /\ resp.kind = "success" =>
        LET P == {j \in WithinBounds(resp.req) : store[j].success = 1}
        IN  {<<r.label, r.count>> : r \in resp.rows}
              = {<<store[j].label,
                   Cardinality({k \in P : store[k].label = store[j].label})>>
                 : j \in P}

\* C16 as stated: every stored sample has an empty error_message if and
\* only if its success flag is true: a successful sample carries no message
\* and a failing sample carries a non-empty one.
C16_MessageIffFailure ==
  \A j \in DOMAIN store : (store[j].error_message = "") <=> (store[j].success = 1)

\* the sample an accepted ingest has stored: the newest row of the table
\* while the response of the ingest is held
Stored == store[Len(store)]

Accepted == resp.kind = "metrics" /\ resp.code = 200

\* C17: the stored success flag is the payload's success value when the key
\* is present, whatever errorPct says; without it, it is true exactly when
\* errorPct <= 0 if errorPct is present; otherwise it is true.
C17_SuccessFlag ==
  Accepted =>
    /\ store # << >>
    /\ LET d == resp.req
           flag == IF "success" \in DOMAIN d THEN d.success.v
                   ELSE IF "errorPct" \in DOMAIN d THEN d.errorPct.v <= 0
                   ELSE TRUE
       IN  Stored.success = IF flag THEN 1 ELSE 0

\* C17 witness: a payload with success true and errorPct 5 is stored as a
\* success.
C17_Witness ==
  /\ Accepted
  /\ "success" \in DOMAIN resp.req /\ "errorPct" \in DOMAIN resp.req
  /\ resp.req.success = JBool(TRUE) /\ resp.req.errorPct = JInt(5)
  /\ Stored.success = 1

\* C18 as stated: every stored sample has a non-empty label, and an
\* accepted payload is stored under its label if present, else its sampler
\* if present, else "ALL".
C18_LabelNonEmpty ==
  /\ \A j \in DOMAIN store : store[j].label # ""
  /\ Accepted =>
        LET d == resp.req
        IN  Stored.label = IF "label" \in DOMAIN d THEN d.label.v
                           ELSE IF "sampler" \in DOMAIN d THEN d.sampler.v
                           ELSE "ALL"

\* the keys the ingest endpoint reads
RecognizedKeys ==
  {"label", "sampler", "responseTime", "avgResponseTime", "avg", "success",
   "errorPct", "statusCode", "rc", "errorMessage", "errorMsg",
   "activeThreads", "threads"}

\* C19 as stated: a payload object that carries none of the recognized
\* keys, the empty object included, is accepted and stored with all
\* defaults: label "ALL", response_time 0.0, success true, status_code
\* "200", an empty error_message and thread_count 0.
C19_DefaultsForUnrecognized ==
  resp.kind = "metrics" /\ DOMAIN resp.req \cap RecognizedKeys = {} =>
    /\ resp.code = 200
    /\ store # << >>
    /\ Stored = [timestamp     |-> Stored.timestamp,
                 label         |-> "ALL",
                 response_time |-> 0,
                 success       |-> 1,
                 thread_count  |-> 0,
                 status_code   |-> "200",
                 error_message |-> ""]

\* C20: an ingest that fails, the payload rejected or a field not
\* convertible to its type, leaves the store exactly as it was.
C20_FailedIngestWritesNothing ==
  [][resp.kind = "none" /\ resp'.kind = "metrics" /\ resp'.code # 200
       => store' = store]_vars

\* C20 witness: an ingest has failed on a conversion while the store holds
\* two samples.
C20_Witness ==
  /\ resp.kind = "metrics"
  /\ resp.code = 500
  /\ Len(store) = 2

\* the rows of an unfiltered Aggregate response count every stored sample
\* under its label
CountsWholeStore ==
  /\ \A l \in {store[j].label : j \in DOMAIN store} :
        \E i \in DOMAIN resp.rows :
          /\ resp.rows[i].label = l
          /\ resp.rows[i].count = Cardinality({j \in DOMAIN store : store[j].label = l})
  /\ Sum([i \in DOMAIN resp.rows |-> resp.rows[i].count]) = Len(store)

\* C21: each successful ingest appends exactly one sample to the store and
\* leaves the samples already there in place, a payload ingested before
\* included; an Aggregate query without filters then counts every stored
\* sample, so n ingests of one payload are counted n times.
C21_IngestAppendsOne ==
  /\ [][resp.kind = "none" /\ resp'.kind = "metrics" /\ resp'.code = 200
          => /\ Len(store') = Len(store) + 1
             /\ SubSeq(store', 1, Len(store)) = store]_vars
  /\ [](resp.kind = "aggregate" /\ resp.req.label = None
          /\ resp.req.start = None /\ resp.req.end = None => CountsWholeStore)

\* one payload ingested three times in one second, counted 3
C21_Witness ==
  /\ resp.kind = "aggregate"
  /\ resp.req.label = None /\ resp.req.start = None /\ resp.req.end = None
  /\ Len(store) = 3
  /\ store[1] = store[2] /\ store[2] = store[3]
  /\ Len(resp.rows) = 1
  /\ resp.rows[1].count = 3

\* C22: a stored sample is never changed or deleted: every step leaves the
\* rows of the table in place with their values, and only the step of an
\* ingest adds one; the steps of every query (aggregate, time series,
\* errors, success, snapshot) leave the table as it is.
C22_StoreOnlyGrows ==
  /\ [][/\ Len(store') >= Len(store)
        /\ SubSeq(store', 1, Len(store)) = store]_vars
  /\ [][store' # store => resp.kind = "none" /\ resp'.kind = "metrics"]_vars

\* a snapshot taken over samples of an earlier second, all still stored
C22_Witness ==
  /\ resp.kind = "snapshot"
  /\ Len(store) >= 2
  /\ store[1].timestamp < now
  /\ Len(resp.agg) = 2

\* C23 as stated: every stored sample has a response time and a thread
\* count that are not negative, whatever payload the ingest accepted.
C23_ValuesNonNegative ==
  \A j \in DOMAIN store :
    store[j].response_time >= 0 /\ store[j].thread_count >= 0

\* the keys a sender may put its own time under
TimestampKeys == {"timestamp", "ts", "time"}

\* the request body without them
WithoutTimestamp(data) == [k \in DOMAIN data \ TimestampKeys |-> data[k]]

\* C24 as stated: an ingest stores the second of the server clock, and a
\* timestamp in the payload has no effect: the ingest answers and stores
\* what the ingest of the same payload without its timestamp would answer
\* and store in that second.
C24_TimestampIsIngestionTime ==
  [][resp.kind = "none" /\ resp'.kind = "metrics"
       => LET plain == receive_metrics(WithoutTimestamp(resp'.req), now)
          IN  /\ resp'.code = plain.code
              /\ store' = IF plain.row = None THEN store
                          ELSE Append(store, plain.row[1])
              /\ (resp'.code = 200 => store'[Len(store')].timestamp = now)]_vars

\* the failing, or the successful, samples in the time range of a request
BySuccessInRange(req, success) ==
  {j \in WithinBounds(req) : store[j].success = success}

\* C25 as stated: the Errors response has one row per (label, status_code)
\* pair of the failing samples in the time range, its count the number of
\* those samples, the rows in descending order of count; a successful
\* sample contributes to none.
C25_ErrorsBreakdown ==
  resp.kind = "errors" =>
    LET P     == BySuccessInRange(resp.req, 0)
        pairs == {<<store[j].label, store[j].status_code>> : j \in P}
    IN  /\ Len(resp.list) = Cardinality(pairs)
        /\ \A k \in pairs :
             \E i \in DOMAIN resp.list :
               /\ resp.list[i].label = k[1]
               /\ resp.list[i].status = k[2]
               /\ resp.list[i].count =
                    Cardinality({j \in P : /\ store[j].label = k[1]
                                           /\ store[j].status_code = k[2]})
        /\ \A i, j \in DOMAIN resp.list :
             i < j => resp.list[i].count >= resp.list[j].count

\* C26 as stated: the Success response has one row per label of the
\* successful samples in the time range, with the count, the mean (to 2
\* decimals), the smallest and the largest response time of that label's
\* successful samples; a label whose samples all fail has no row.
C26_SuccessBreakdown ==
  resp.kind = "success" =>
    LET P      == BySuccessInRange(resp.req, 1)
        labels == {store[j].label : j \in P}
    IN  /\ Len(resp.list) = Cardinality(labels)
        /\ \A l \in labels :
             \E i \in DOMAIN resp.list :
               LET S == AscendingTimes({j \in P : store[j].label = l})
               IN  /\ resp.list[i].label = l
                   /\ resp.list[i].count = Len(S)
                   /\ resp.list[i].avg = RoundHalfEven(100 * Sum(S), Len(S))
                   /\ resp.list[i].min = S[1]
                   /\ resp.list[i].max = S[Len(S)]

\* C27 as stated: an error-rate response computed while ingests commit takes
\* the error count and the total count of each second from one state of the
\* table, so no error count exceeds its total and every value lies between
\* 0 and 100 (0 and 10000 hundredths).
C27_ErrorRateWithinBounds ==
  resp.kind = "errorpct" =>
    \A i \in DOMAIN resp.values : 0 <= resp.values[i] /\ resp.values[i] <= 10000

\* C28 as stated: a throughput or concurrency request with window w and end
\* e is answered with the w seconds e-w+1 .. e and w values, for every whole
\* w supplied; w is 60 when no window is supplied and e is the second of the
\* clock when no end is supplied.
C28_WindowAndEnd ==
  [][resp.kind = "none" /\ resp'.kind \in {"tps", "threads"}
       => LET req == resp'.req
              w   == IF req.window = None THEN 60 ELSE req.window[1]
              e   == IF req.end = None THEN now ELSE req.end[1]
          IN  /\ Len(resp'.timestamps) = w
              /\ Len(resp'.values) = w
              /\ \A i \in DOMAIN resp'.timestamps :
                   resp'.timestamps[i] = e - w + i]_vars

\* -1, 0, 1 as the float x is below, at, above the float that round(., 2)
\* returns for n hundredths, the float nearest to n / 100
CmpHundredths(x, n) == FCmp(x, FDivInt(n, 100))

\* C29 as stated: the statistics of a row satisfy min <= pct90 <= pct95 <=
\* pct99 <= max, for every list of response times of the label.
C29_PercentilesOrdered ==
  ret.done =>
    /\ CmpHundredths(ret.val.min, ret.val.pct90) <= 0
    /\ ret.val.pct90 <= ret.val.pct95
    /\ ret.val.pct95 <= ret.val.pct99
    /\ CmpHundredths(ret.val.max, ret.val.pct99) >= 0

\* the sum of the counts of a set of rows
RECURSIVE SumCounts(_)
SumCounts(rows) ==
  IF rows = {} THEN 0
  ELSE LET r == CHOOSE r \in rows : TRUE IN r.count + SumCounts(rows \ {r})

\* the labels of the three tables of a snapshot
SnapshotLabels ==
  {resp.agg[i].label : i \in DOMAIN resp.agg}
    \cup {r.label : r \in resp.errs} \cup {r.label : r \in resp.succ}

\* C30 as stated: the three tables of a snapshot describe one state of the
\* store: for every label the count of its aggregate row is the count of
\* its Success row plus the counts of its Errors rows (a missing row
\* counting 0), also when ingests commit while the snapshot is produced.
C30_SnapshotTablesAgree ==
  resp.kind = "snapshot" =>
    \A l \in SnapshotLabels :
      Sum([i \in DOMAIN resp.agg |->
             IF resp.agg[i].label = l THEN resp.agg[i].count ELSE 0])
        = SumCounts({r \in resp.succ : r.label = l})
            + SumCounts({r \in resp.errs : r.label = l})

====
